---------------------------- MODULE Spec2Model ----------------------------
(***************************************************************************)
(* A model of bevy_rng (src/src/lib.rs): RngPlugin builds a RootRng        *)
(* resource from an optional seed, every system obtains its own Rng        *)
(* through FromWorld, and draws numbers through the methods of Rng.        *)
(*                                                                         *)
(* Numbers keep their width.  A u32 / u64 is a little-endian sequence of   *)
(* 4 / 8 limbs in base 256, an f32 / f64 is a sign, an integer mantissa    *)
(* and a binary exponent rounded to 24 / 53 significant bits (round to     *)
(* nearest, ties to even).  Exponent range (subnormals, infinities, NaN)   *)
(* is not modelled: the float inputs of the model stay far from it.        *)
(*                                                                         *)
(* The generator is Xoshiro256StarStar of the rand_xoshiro crate, seeded   *)
(* through SplitMix64 as that crate does.  rand_seeder's hash of a text    *)
(* seed is library code that is not reproduced here bit for bit: it is     *)
(* stood in for by a byte-wise FNV-1a fold expanded through SplitMix64,    *)
(* which like the original is a function of the content of the string and  *)
(* nothing else.                                                           *)
(*                                                                         *)
(* Two runs of the application are modelled side by side (Runs), built     *)
(* from the same RngPlugin value, so that reproducibility across runs can  *)
(* be stated over states.                                                  *)
(***************************************************************************)
EXTENDS Integers, Sequences, FiniteSets, TLC

---------------------------------------------------------------------------
(* Fixed-width unsigned arithmetic on limb sequences (least limb first).   *)

\* the sequence f(i), ..., f(n), built element by element
RECURSIVE Tab(_, _, _)
Tab(tabf(_), tabi, tabn) ==
    IF tabi > tabn THEN <<>> ELSE <<tabf(tabi)>> \o Tab(tabf, tabi + 1, tabn)

Zero(n) == Tab(LAMBDA i : 0, 1, n)

\* The one element of a singleton set.  The operators below take their
\* arguments through it, as a \in {x}: an argument is then evaluated once,
\* however often the body uses it.
Only(S) == CHOOSE v \in S : TRUE

\* the n-limb word of a small natural v (v < 2^31)
RECURSIVE Limbs(_, _)
Limbs(v, n) == IF n = 0 THEN <<>> ELSE <<v % 256>> \o Limbs(v \div 256, n - 1)

\* x cut or zero-extended to n limbs (x mod 256^n)
Pad(x, n) ==
    Only({Tab(LAMBDA i : IF i <= Len(a) THEN a[i] ELSE 0, 1, n) : a \in {x}})

IsZero(x) == \A i \in 1..Len(x) : x[i] = 0

\* the exclusive or of two bits, of two 4-bit digits (tabulated), of two limbs
XorBit(a, b) == (a + b) % 2

Xor4(a, b) ==
    XorBit(a % 2, b % 2)
  + 2 * XorBit((a \div 2) % 2, (b \div 2) % 2)
  + 4 * XorBit((a \div 4) % 2, (b \div 4) % 2)
  + 8 * XorBit(a \div 8, b \div 8)

Xor4Table == Tab(LAMBDA a : Tab(LAMBDA b : Xor4(a - 1, b - 1), 1, 16), 1, 16)

Xor8(a, b) ==
    16 * Xor4Table[(a \div 16) + 1][(b \div 16) + 1]
       + Xor4Table[(a % 16) + 1][(b % 16) + 1]

\* a ^ b
WXor(x, y) ==
    Only({Tab(LAMBDA i : Xor8(a[i], b[i]), 1, Len(a)) : a \in {x}, b \in {y}})

\* a << k, within the width of a
Shl(x, k) ==
    Only({Tab(LAMBDA i :
                (IF i - q >= 1 THEN (a[i - q] * (2 ^ s)) % 256 ELSE 0)
              + (IF i - q - 1 >= 1 THEN a[i - q - 1] \div (2 ^ (8 - s)) ELSE 0),
              1, Len(a)) : a \in {x}, q \in {k \div 8}, s \in {k % 8}})

\* a >> k
Shr(x, k) ==
    Only({Tab(LAMBDA i :
                (IF i + q <= Len(a) THEN a[i + q] \div (2 ^ s) ELSE 0)
              + (IF i + q + 1 <= Len(a) THEN (a[i + q + 1] * (2 ^ (8 - s))) % 256 ELSE 0),
              1, Len(a)) : a \in {x}, q \in {k \div 8}, s \in {k % 8}})

\* a.rotate_left(k), 0 < k < width
Rotl(x, k) ==
    Only({Only({Tab(LAMBDA i : l[i] + r[i], 1, Len(a)) :
                    l \in {Shl(a, k)}, r \in {Shr(a, 8 * Len(a) - k)}}) :
              a \in {x}})

RECURSIVE AddFrom(_, _, _, _)
AddFrom(a, b, i, c) ==
    IF i > Len(a) THEN <<>>
    ELSE LET t == a[i] + b[i] + c
         IN  <<t % 256>> \o AddFrom(a, b, i + 1, t \div 256)

\* a + b modulo the width of a (a.wrapping_add(b))
WAdd(x, y) == Only({AddFrom(a, b, 1, 0) : a \in {x}, b \in {y}})

RECURSIVE SubFrom(_, _, _, _)
SubFrom(a, b, i, c) ==
    IF i > Len(a) THEN <<>>
    ELSE LET t == a[i] - b[i] - c
         IN  <<(t + 256) % 256>> \o SubFrom(a, b, i + 1, IF t < 0 THEN 1 ELSE 0)

\* a - b modulo the width of a (a.wrapping_sub(b))
WSub(x, y) == Only({SubFrom(a, b, 1, 0) : a \in {x}, b \in {y}})

RECURSIVE LessFrom(_, _, _)
LessFrom(a, b, i) ==
    IF i = 0 THEN FALSE
    ELSE IF a[i] # b[i] THEN a[i] < b[i]
    ELSE LessFrom(a, b, i - 1)

\* a < b, for words of one width
WLess(x, y) == Only({LessFrom(a, b, Len(a)) : a \in {x}, b \in {y}})

WLeq(x, y) == Only({a = b \/ WLess(a, b) : a \in {x}, b \in {y}})

RECURSIVE ColSum(_, _, _, _)
ColSum(a, b, k, i) ==
    IF i > k THEN 0 ELSE a[i] * b[k + 1 - i] + ColSum(a, b, k, i + 1)

RECURSIVE MulFrom(_, _, _, _)
MulFrom(a, b, k, c) ==
    IF k > Len(a) THEN <<>>
    ELSE LET t == ColSum(a, b, k, 1) + c
         IN  <<t % 256>> \o MulFrom(a, b, k + 1, t \div 256)

\* a * b modulo the width of a (a.wrapping_mul(b))
WMul(x, y) == Only({MulFrom(a, b, 1, 0) : a \in {x}, b \in {y}})

\* the full product, Len(a) + Len(b) limbs wide
FullMul(x, y) ==
    Only({WMul(Pad(a, Len(a) + Len(b)), Pad(b, Len(a) + Len(b))) :
              a \in {x}, b \in {y}})

RECURSIVE TopLimb(_, _)
TopLimb(x, i) == IF i = 0 THEN 0 ELSE IF x[i] # 0 THEN i ELSE TopLimb(x, i - 1)

RECURSIVE Bits8(_)
Bits8(v) == IF v = 0 THEN 0 ELSE 1 + Bits8(v \div 2)

\* the number of significant bits of x (0 for 0)
BitLen(x) ==
    Only({Only({IF t = 0 THEN 0 ELSE 8 * (t - 1) + Bits8(a[t]) :
                    t \in {TopLimb(a, Len(a))}}) : a \in {x}})

\* x with its high zero limbs dropped, kept at least one limb long
Trim(x) ==
    Only({Only({Pad(a, IF t = 0 THEN 1 ELSE t) : t \in {TopLimb(a, Len(a))}}) :
              a \in {x}})

---------------------------------------------------------------------------
(* SplitMix64 and Xoshiro256StarStar (rand_xoshiro).                       *)

U64(v) == Limbs(v, 8)
U32(v) == Limbs(v, 4)

\* 0x9e3779b97f4a7c15
PHI == <<21, 124, 74, 127, 185, 121, 55, 158>>
\* 0xbf58476d1ce4e5b9
SplitMixA == <<185, 229, 228, 28, 109, 71, 88, 191>>
\* 0x94d049bb133111eb
SplitMixB == <<235, 17, 49, 19, 187, 73, 208, 148>>

\* SplitMix64::next_u64 on state x: the output after x has been advanced
SplitMixMix(x, k) == Only({WXor(z, Shr(z, k)) : z \in {x}})

SplitMixOut(x) ==
    SplitMixMix(WMul(SplitMixMix(WMul(SplitMixMix(x, 30), SplitMixA), 27),
                     SplitMixB), 31)

\* the next k outputs of a SplitMix64 whose state is x
RECURSIVE SplitMixFill(_, _)
SplitMixFill(x, k) ==
    IF k = 0 THEN <<>>
    ELSE Only({<<SplitMixOut(y)>> \o SplitMixFill(y, k - 1) : y \in {WAdd(x, PHI)}})

\* the four words seed_from_u64 fills the seed with, from a SplitMix64 that
\* starts at n
SplitMixState(n) == SplitMixFill(n, 4)

AllZero(s) == \A i \in 1..4 : IsZero(s[i])

\* Xoshiro256StarStar::from_seed, the seed read as four little-endian u64:
\* an all-zero seed is replaced by seed_from_u64(0)
from_seed(seed) ==
    Only({IF AllZero(s) THEN SplitMixState(U64(0)) ELSE s : s \in {seed}})

\* Xoshiro256StarStar::seed_from_u64
seed_from_u64(n) == from_seed(SplitMixState(n))

\* Xoshiro256StarStar::next_u64: the value drawn and the state left behind
XoOut(state) ==
    Only({WMul(Rotl(WMul(s[2], U64(5)), 7), U64(9)) : s \in {state}})

XoStep(state) ==
    Only({Only({<<WXor(s[1], s4), WXor(s[2], s3), WXor(s3, t), Rotl(s4, 45)>> :
                    t  \in {Shl(s[2], 17)},
                    s3 \in {WXor(s[3], s[1])},
                    s4 \in {WXor(s[4], s[2])}}) : s \in {state}})

\* SeedableRng::from_rng: the 32 seed bytes are four next_u64 of the source;
\* returns the new generator and the source as it is left
RECURSIVE FillWords(_, _)
FillWords(src, k) ==
    IF k = 0 THEN [words |-> <<>>, source |-> src]
    ELSE Only({Only({[words  |-> <<XoOut(s)>> \o rest.words,
                      source |-> rest.source] :
                         rest \in {FillWords(XoStep(s), k - 1)}}) : s \in {src}})

from_rng(src) ==
    Only({[child |-> from_seed(f.words), source |-> f.source] :
              f \in {FillWords(src, 4)}})

---------------------------------------------------------------------------
(* Binary floating point: [neg, m, e] stands for (-1)^neg * m * 2^e with m *)
(* a natural number (trimmed limbs), odd unless the value is zero.         *)

RECURSIVE LowLimb(_, _)
LowLimb(x, i) == IF x[i] # 0 THEN i ELSE LowLimb(x, i + 1)

RECURSIVE Tz8(_)
Tz8(v) == IF v % 2 = 1 THEN 0 ELSE 1 + Tz8(v \div 2)

\* the number of trailing zero bits of x, x # 0
TrailingZeros(x) ==
    Only({Only({8 * (i - 1) + Tz8(a[i]) : i \in {LowLimb(a, 1)}}) : a \in {x}})

FZero == [neg |-> FALSE, m |-> <<0>>, e |-> 0]

\* the canonical form of (-1)^neg * m * 2^e
FNorm(neg, m, e) ==
    Only({IF IsZero(a) THEN FZero
          ELSE Only({[neg |-> neg, m |-> Trim(Shr(a, z)), e |-> e + z] :
                         z \in {TrailingZeros(a)}}) : a \in {m}})

\* m * 2^k as a word wide enough to hold it
Widen(m, k) ==
    Only({Shl(Pad(a, (BitLen(a) + k) \div 8 + 1), k) : a \in {m}})

\* x rounded to p significant bits, to nearest, ties to even
RoundUp(q, rem, half) ==
    Only({WLess(h, r) \/ (r = h /\ q[1] % 2 = 1) : r \in {rem}, h \in {half}})

\* w >> sh, to nearest, ties to even
RoundShift(word, sh) ==
    Only({Only({IF RoundUp(q, WSub(w, Shl(q, sh)), Shl(Pad(<<1>>, Len(w)), sh - 1))
                THEN WAdd(q, Pad(<<1>>, Len(w)))
                ELSE q : q \in {Shr(w, sh)}}) : w \in {word}})

Round(x, p) ==
    Only({Only({IF l <= p THEN a
                ELSE FNorm(a.neg, RoundShift(Pad(a.m, Len(a.m) + 1), l - p),
                           a.e + (l - p)) : l \in {BitLen(a.m)}}) : a \in {x}})

\* the exact product and the exact sum of two values
ExactMul(x, y) ==
    Only({FNorm(a.neg # b.neg, FullMul(a.m, b.m), a.e + b.e) :
              a \in {x}, b \in {y}})

\* (-1)^aneg * am + (-1)^bneg * bm, times 2^e, am and bm of one width
AddSigned(aneg, am, bneg, bm, e) ==
    Only({IF aneg = bneg THEN FNorm(aneg, WAdd(x, y), e)
          ELSE IF WLess(x, y) THEN FNorm(bneg, WSub(y, x), e)
          ELSE FNorm(aneg, WSub(x, y), e) : x \in {am}, y \in {bm}})

\* the two significands at the exponent e, in one width that holds their sum
AddAligned(a, b, e) ==
    Only({Only({AddSigned(a.neg, Pad(am, n), b.neg, Pad(bm, n), e) :
                    n \in {(IF Len(am) < Len(bm) THEN Len(bm) ELSE Len(am)) + 1}}) :
              am \in {Widen(a.m, a.e - e)}, bm \in {Widen(b.m, b.e - e)}})

ExactAdd(x, y) ==
    Only({AddAligned(a, b, IF a.e < b.e THEN a.e ELSE b.e) : a \in {x}, b \in {y}})

FNeg(x) ==
    Only({IF IsZero(a.m) THEN a ELSE [a EXCEPT !.neg = ~a.neg] : a \in {x}})

\* a < b and a <= b as real numbers
FLess(a, b) == ExactAdd(a, FNeg(b)).neg
FLeq(a, b) == ~FLess(b, a)

\* the arithmetic of a float type with p significant bits
FMul(a, b, p) == Round(ExactMul(a, b), p)
FAdd(a, b, p) == Round(ExactAdd(a, b), p)
FSub(a, b, p) == Round(ExactAdd(a, FNeg(b)), p)

\* `w as f32` / `w as f64` of an unsigned integer w
IntToFloat(w, p) == Round(FNorm(FALSE, w, 0), p)

\* `x as u32` / `x as u64` of a float: truncated toward zero, saturating
Saturate(word, n) ==
    Only({IF BitLen(t) > 8 * n THEN Tab(LAMBDA i : 255, 1, n) ELSE Pad(t, n) :
              t \in {word}})

FloatToInt(x, n) ==
    Only({IF a.neg \/ IsZero(a.m) THEN Zero(n)
          ELSE Saturate(IF a.e >= 0 THEN Widen(a.m, a.e) ELSE Shr(a.m, 0 - a.e), n) :
              a \in {x}})

\* the float m * 2^e of a small natural m
F(neg, m, e) == FNorm(neg, Limbs(m, 4), e)

---------------------------------------------------------------------------
(* The values of the program.                                              *)

\* Option<T>: None is the empty sequence, Some(x) the sequence of x alone
None == <<>>
Some(x) == <<x>>
Get(o) == o[1]

\* the two runs of the application that are compared
Runs == 1..2

\* the systems of the application that hold a Local<Rng>
NumSystems == 2
Systems == 1..NumSystems

\* the number of draws one run makes
MaxDraws == 2

\* enum Seed
Number(n) == [tag |-> "Number", v |-> n]
String(t) == [tag |-> "String", v |-> t]

\* the seeds the application may pass: From<u64> and From<&str> / From<String>,
\* a text being the sequence of its bytes ("" and "a")
NumberSeeds == {U64(42)}
StringSeeds == {<<>>, <<97>>}

\* struct RngPlugin; `added` tells whether the application adds the plugin at
\* all.  RngPlugin::default() has no seed.
RngPlugin(seed) == [added |-> TRUE, seed |-> seed]
NoPlugin == [added |-> FALSE, seed |-> None]
Plugins ==
    {NoPlugin, RngPlugin(None)}
        \cup {RngPlugin(Some(Number(n))) : n \in NumberSeeds}
        \cup {RngPlugin(Some(String(t))) : t \in StringSeeds}

\* What the operating system's entropy source may answer to from_entropy, as
\* the four words of the seed.  The first makes the first draw of the seeded
\* generator 2^64 - 1, the second makes it 0.
EntropySeeds ==
    {<<U64(1), <<199, 113, 28, 199, 113, 28, 199, 79>>, U64(3), U64(4)>>,
     <<U64(1), U64(0), U64(3), U64(4)>>}

\* Xoshiro256StarStar::from_entropy, the source answering e
from_entropy(e) == from_seed(e)

\* 0xcbf29ce484222325 and 0x100000001b3
HashBasis == <<37, 35, 34, 132, 228, 156, 242, 203>>
HashPrime == <<179, 1, 0, 0, 0, 1, 0, 0>>

RECURSIVE HashBytes(_, _, _)
HashBytes(t, i, h) ==
    IF i > Len(t) THEN h
    ELSE HashBytes(t, i + 1, WMul(WXor(h, U64(t[i])), HashPrime))

\* Seeder::from(text).make_rng(): a generator that is a function of the text
make_rng(t) == from_seed(SplitMixState(HashBytes(t, 1, HashBasis)))

---------------------------------------------------------------------------
(* impl Rng: every method takes the generator of the handle and returns    *)
(* the generator it leaves and the value drawn.                            *)

next_u64(inner) ==
    Only({[inner |-> XoStep(s), val |-> XoOut(s)] : s \in {inner}})

\* the upper half of next_u64
next_u32(inner) ==
    Only({[inner |-> r.inner, val |-> SubSeq(r.val, 5, 8)] : r \in {next_u64(inner)}})

\* gen::<f32>(): the upper 24 bits of next_u32, times 2^-24
next_f32(inner) ==
    Only({[inner |-> r.inner, val |-> FNorm(FALSE, Shr(r.val, 8), -24)] :
              r \in {next_u32(inner)}})

\* gen::<f64>(): the upper 53 bits of next_u64, times 2^-53
next_f64(inner) ==
    Only({[inner |-> r.inner, val |-> FNorm(FALSE, Shr(r.val, 11), -53)] :
              r \in {next_u64(inner)}})

\* a + b and a - b of unsigned integers: with overflow checks the operation
\* panics where the result does not fit, without them it wraps
CheckedAdd(x, y, checks) ==
    Only({Only({[ok |-> ~(checks /\ WLess(v, a)), val |-> v] : v \in {WAdd(a, b)}}) :
              a \in {x}, b \in {y}})
CheckedSub(x, y, checks) ==
    Only({[ok |-> ~(checks /\ WLess(a, b)), val |-> WSub(a, b)] :
              a \in {x}, b \in {y}})

\* (self.next_fNN() * (max - min) as fNN) as uNN + min, for uNN of n limbs
\* and fNN of p significant bits, f being the float drawn
IntRange(f, min, max, n, p, checks) ==
    Only({Only({[ok |-> d.ok /\ r.ok, val |-> r.val] :
                    r \in {CheckedAdd(FloatToInt(FMul(f, IntToFloat(d.val, p), p), n),
                                      min, checks)}}) :
              d \in {CheckedSub(max, min, checks)}})

next_u32_range(inner, min, max, checks) ==
    Only({Only({[inner |-> f.inner, ok |-> r.ok, val |-> r.val] :
                    r \in {IntRange(f.val, min, max, 4, 24, checks)}}) :
              f \in {next_f32(inner)}})

next_u64_range(inner, min, max, checks) ==
    Only({Only({[inner |-> f.inner, ok |-> r.ok, val |-> r.val] :
                    r \in {IntRange(f.val, min, max, 8, 53, checks)}}) :
              f \in {next_f64(inner)}})

\* x * (max - min) + min in a float type of p significant bits
FloatRange(x, min, max, p) == FAdd(FMul(x, FSub(max, min, p), p), min, p)

\* self.next_fNN() * (max - min) + min
next_f32_range(inner, min, max) ==
    Only({[inner |-> f.inner, val |-> FloatRange(f.val, min, max, 24)] :
              f \in {next_f32(inner)}})

next_f64_range(inner, min, max) ==
    Only({[inner |-> f.inner, val |-> FloatRange(f.val, min, max, 53)] :
              f \in {next_f64(inner)}})

---------------------------------------------------------------------------
(* The calls a system makes on its handle, with their arguments.           *)

U32Ranges ==
    <<[min |-> U32(10), max |-> U32(20)],
      [min |-> U32(20), max |-> U32(10)],
      [min |-> U32(5), max |-> U32(5)]>>

U64Ranges ==
    <<[min |-> U64(10), max |-> U64(20)],
      [min |-> U64(20), max |-> U64(10)]>>

\* (1.0, 2.0)
F32Ranges ==
    <<[min |-> F(FALSE, 1, 0), max |-> F(FALSE, 1, 1)]>>

\* (-1.0, 1.0) and (1.0, 2.0)
F64Ranges ==
    <<[min |-> F(TRUE, 1, 0), max |-> F(FALSE, 1, 0)],
      [min |-> F(FALSE, 1, 0), max |-> F(FALSE, 1, 1)]>>

\* a call is the name of the method and the place of its arguments in the
\* table of that method (0: no arguments)
Ops ==
    {<<"next_u32", 0>>, <<"next_u64", 0>>, <<"next_f32", 0>>, <<"next_f64", 0>>}
        \cup {<<"next_u32_range", i>> : i \in 1..Len(U32Ranges)}
        \cup {<<"next_u64_range", i>> : i \in 1..Len(U64Ranges)}
        \cup {<<"next_f32_range", i>> : i \in 1..Len(F32Ranges)}
        \cup {<<"next_f64_range", i>> : i \in 1..Len(F64Ranges)}

\* the calls made where the runs are interleaved freely (SpecOrder)
OrderOps == {<<"next_u32", 0>>}

\* What a system sees of a call: the value returned, an integer (m, with
\* e = 0) or a float, or the panic that ended the call.
NoOut == [op |-> <<"none", 0>>, kind |-> "none", neg |-> FALSE, m |-> <<0>>, e |-> 0]
IntOut(op, w) == [op |-> op, kind |-> "int", neg |-> FALSE, m |-> w, e |-> 0]
FloatOut(op, x) == [op |-> op, kind |-> "float", neg |-> x.neg, m |-> x.m, e |-> x.e]
PanicOut(op) == [op |-> op, kind |-> "panic", neg |-> FALSE, m |-> <<0>>, e |-> 0]
OutFloat(o) == [neg |-> o.neg, m |-> o.m, e |-> o.e]

\* the call op on a handle whose generator is inner
Call(inner, op, checks) ==
    CASE op[1] = "next_u32" ->
            Only({[inner |-> r.inner, out |-> IntOut(op, r.val)] :
                      r \in {next_u32(inner)}})
      [] op[1] = "next_u64" ->
            Only({[inner |-> r.inner, out |-> IntOut(op, r.val)] :
                      r \in {next_u64(inner)}})
      [] op[1] = "next_f32" ->
            Only({[inner |-> r.inner, out |-> FloatOut(op, r.val)] :
                      r \in {next_f32(inner)}})
      [] op[1] = "next_f64" ->
            Only({[inner |-> r.inner, out |-> FloatOut(op, r.val)] :
                      r \in {next_f64(inner)}})
      [] op[1] = "next_u32_range" ->
            Only({[inner |-> r.inner,
                   out |-> IF r.ok THEN IntOut(op, r.val) ELSE PanicOut(op)] :
                      r \in {next_u32_range(inner, U32Ranges[op[2]].min,
                                            U32Ranges[op[2]].max, checks)}})
      [] op[1] = "next_u64_range" ->
            Only({[inner |-> r.inner,
                   out |-> IF r.ok THEN IntOut(op, r.val) ELSE PanicOut(op)] :
                      r \in {next_u64_range(inner, U64Ranges[op[2]].min,
                                            U64Ranges[op[2]].max, checks)}})
      [] op[1] = "next_f32_range" ->
            Only({[inner |-> r.inner, out |-> FloatOut(op, r.val)] :
                      r \in {next_f32_range(inner, F32Ranges[op[2]].min,
                                            F32Ranges[op[2]].max)}})
      [] op[1] = "next_f64_range" ->
            Only({[inner |-> r.inner, out |-> FloatOut(op, r.val)] :
                      r \in {next_f64_range(inner, F64Ranges[op[2]].min,
                                            F64Ranges[op[2]].max)}})

---------------------------------------------------------------------------
(* The state.                                                              *)

VARIABLES
    plugin,           \* the RngPlugin value of the application (both runs)
    overflow_checks,  \* whether the binary is built with overflow checks
    phase,            \* per run: "setup" until the plugins are built
    root,             \* per run: the RootRng resource, None or Some(rng)
    locals,           \* per run and system: Local<Rng>, None or Some(inner)
    first,            \* per run and system: the handle as from_world made it
    order,            \* per run: the systems in the order of their from_world
    drawn,            \* per run and system: the number of calls made
    out,              \* per run and system: what the last call returned
    crashed           \* per run: a call has panicked

vars ==
    <<plugin, overflow_checks, phase, root, locals, first, order, drawn, out,
      crashed>>

Init ==
    /\ plugin \in Plugins
    /\ overflow_checks \in BOOLEAN
    /\ phase = [r \in Runs |-> IF plugin.added THEN "setup" ELSE "running"]
    /\ root = [r \in Runs |-> None]
    /\ locals = [r \in Runs |-> [c \in Systems |-> None]]
    /\ first = [r \in Runs |-> [c \in Systems |-> None]]
    /\ order = [r \in Runs |-> <<>>]
    /\ drawn = [r \in Runs |-> [c \in Systems |-> 0]]
    /\ out = [r \in Runs |-> [c \in Systems |-> NoOut]]
    /\ crashed = [r \in Runs |-> FALSE]

\* the runs in R take the step, the others keep what they have
Upd(f, R, new(_)) == <<IF 1 \in R THEN new(1) ELSE f[1], IF 2 \in R THEN new(2) ELSE f[2]>>

\* one outcome for each run in R, out of the outcomes S(r) the run may see
Outcomes(R, S(_)) ==
    {<<a, b>> : a \in (IF 1 \in R THEN S(1) ELSE {None}),
                b \in (IF 2 \in R THEN S(2) ELSE {None})}

RECURSIVE SumTo(_, _)
SumTo(f, n) == IF n = 0 THEN 0 ELSE f[n] + SumTo(f, n - 1)

\* the number of calls run r has made
Draws(r) == SumTo(drawn[r], NumSystems)

---------------------------------------------------------------------------
(* The handlers.  A handler that asks the entropy source has one outcome   *)
(* for each answer the source may give.                                    *)

\* Faulty variants of build, against which the properties of the seed are
\* tried: one that seeds from entropy although a number is given, one that
\* takes the empty text for no seed.
build_number_ignored(seed) ==
    IF seed = None \/ Get(seed).tag = "Number"
    THEN {from_entropy(e) : e \in EntropySeeds}
    ELSE {make_rng(Get(seed).v)}

build_empty_is_absent(seed) ==
    IF seed = None \/ (Get(seed).tag = "String" /\ Get(seed).v = <<>>)
    THEN {from_entropy(e) : e \in EntropySeeds}
    ELSE IF Get(seed).tag = "String" THEN {make_rng(Get(seed).v)}
    ELSE {seed_from_u64(Get(seed).v)}

\* RngPlugin::build: the generators the RootRng resource may be given
build(seed) ==
    IF seed = None THEN {from_entropy(e) : e \in EntropySeeds}
    ELSE IF Get(seed).tag = "String" THEN {make_rng(Get(seed).v)}
    ELSE {seed_from_u64(Get(seed).v)}

\* Faulty variants of from_world: one that hands from_rng the root's own
\* generator, which is left advanced, one that fails where there is no root.
from_world_advancing(res) ==
    IF res # None
    THEN {[inner |-> d.child, ok |-> TRUE, root |-> Some(d.source)] :
              d \in {from_rng(Get(res))}}
    ELSE {[inner |-> from_entropy(e), ok |-> TRUE, root |-> res] : e \in EntropySeeds}

from_world_needs_root(res) ==
    IF res # None
    THEN {[inner |-> from_rng(Get(res)).child, ok |-> TRUE, root |-> res]}
    ELSE {[inner |-> from_entropy(e), ok |-> FALSE, root |-> res] : e \in EntropySeeds}

\* Rng::from_world: the handle made, and the RootRng resource as the call
\* leaves it.  from_rng is given a clone of the root's generator, which is
\* dropped when it returns.
from_world(res) ==
    IF res # None
    THEN {[inner |-> from_rng(Get(res)).child, ok |-> TRUE, root |-> res]}
    ELSE {[inner |-> from_entropy(e), ok |-> TRUE, root |-> res] : e \in EntropySeeds}

\* Faulty variants of a call: one where the handles of a run share one
\* generator, one that stores the generator of the handle in the root.
draw_shared(r, c, op) ==
    {[locals |-> [s \in Systems |->
                     IF locals[r][s] = None THEN None ELSE Some(res.inner)],
      out    |-> res.out,
      root   |-> root[r]] : res \in {Call(Get(locals[r][c]), op, overflow_checks)}}

draw_writes_root(r, c, op) ==
    {[locals |-> [locals[r] EXCEPT ![c] = Some(res.inner)],
      out    |-> res.out,
      root   |-> IF root[r] = None THEN None ELSE Some(res.inner)] :
          res \in {Call(Get(locals[r][c]), op, overflow_checks)}}

\* A call on the handle of system c in run r: the locals, the output and the
\* RootRng resource of the run as the call leaves them.  The methods of Rng
\* take `&mut self` and reach nothing but self.inner.
draw(r, c, op) ==
    {[locals |-> [locals[r] EXCEPT ![c] = Some(res.inner)],
      out    |-> res.out,
      root   |-> root[r]] : res \in {Call(Get(locals[r][c]), op, overflow_checks)}}

\* the plugins of the runs in R are built
Build(R) ==
    /\ \A r \in R : phase[r] = "setup"
    /\ \E b \in Outcomes(R, LAMBDA r : build(plugin.seed)) :
          root' = Upd(root, R, LAMBDA r : Some(b[r]))
    /\ phase' = Upd(phase, R, LAMBDA r : "running")
    /\ UNCHANGED <<plugin, overflow_checks, locals, first, order, drawn, out, crashed>>

\* system c of the runs in R is initialised: its Local<Rng> is made
FromWorld(R, c) ==
    /\ \A r \in R : phase[r] = "running" /\ ~crashed[r] /\ locals[r][c] = None
    /\ \E h \in Outcomes(R, LAMBDA r : from_world(root[r])) :
          /\ locals' = Upd(locals, R,
                 LAMBDA r : IF h[r].ok THEN [locals[r] EXCEPT ![c] = Some(h[r].inner)]
                            ELSE locals[r])
          /\ first' = Upd(first, R,
                 LAMBDA r : IF h[r].ok THEN [first[r] EXCEPT ![c] = Some(h[r].inner)]
                            ELSE first[r])
          /\ root' = Upd(root, R, LAMBDA r : h[r].root)
          /\ crashed' = Upd(crashed, R, LAMBDA r : ~h[r].ok)
    /\ order' = Upd(order, R, LAMBDA r : Append(order[r], c))
    /\ UNCHANGED <<plugin, overflow_checks, phase, drawn, out>>

\* system c of the runs in R makes the call op on its handle
Draw(R, c, op) ==
    /\ \A r \in R : locals[r][c] # None /\ ~crashed[r] /\ Draws(r) < MaxDraws
    /\ \E d \in Outcomes(R, LAMBDA r : draw(r, c, op)) :
          /\ locals' = Upd(locals, R, LAMBDA r : d[r].locals)
          /\ out' = Upd(out, R, LAMBDA r : [out[r] EXCEPT ![c] = d[r].out])
          /\ root' = Upd(root, R, LAMBDA r : d[r].root)
          /\ crashed' = Upd(crashed, R, LAMBDA r : d[r].out.kind = "panic")
    /\ drawn' = Upd(drawn, R, LAMBDA r : [drawn[r] EXCEPT ![c] = @ + 1])
    /\ UNCHANGED <<plugin, overflow_checks, phase, first, order>>

---------------------------------------------------------------------------
(* Spec: the two runs take the same steps in the same order, each with its *)
(* own answers of the entropy source.                                      *)

BuildBoth == Build(Runs)
FromWorldBoth == \E c \in Systems : FromWorld(Runs, c)
DrawBoth == \E c \in Systems, op \in Ops : Draw(Runs, c, op)

Next == BuildBoth \/ FromWorldBoth \/ DrawBoth

Spec == Init /\ [][Next]_vars

(* SpecOrder: each run takes its own steps, in its own order.              *)

BuildOne == \E r \in Runs : Build({r})
FromWorldOne == \E r \in Runs, c \in Systems : FromWorld({r}, c)
DrawOne == \E r \in Runs, c \in Systems, op \in OrderOps : Draw({r}, c, op)

NextOrder == BuildOne \/ FromWorldOne \/ DrawOne

SpecOrder == Init /\ [][NextOrder]_vars

---------------------------------------------------------------------------
(* The properties.                                                         *)

Seeded == plugin.added /\ plugin.seed # None

\* the run that run r is compared with
Other(r) == IF r = 1 THEN 2 ELSE 1

\* system c of run r has been initialised
Made(r, c) == \E i \in 1..Len(order[r]) : order[r][i] = c

\* C1: two handles derived one after the other from the same RootRng, with
\* no other operation in between, do not start in the same generator state.
ChildrenDiffer ==
    \A r \in Runs : \A c1, c2 \in Systems :
        (/\ c1 # c2
         /\ root[r] # None
         /\ Draws(r) = 0
         /\ first[r][c1] # None
         /\ first[r][c2] # None)
            => first[r][c1] # first[r][c2]

\* C2: every derivation of a handle from the RootRng changes the generator
\* of the RootRng.
DerivationAdvancesRoot ==
    [][\A r \in Runs : \A c \in Systems :
           (root[r] # None /\ locals[r][c] = None /\ locals'[r][c] # None)
               => root'[r] # root[r]]_vars

\* C3: with an integer seed, two runs that take the same derivations and
\* the same calls in the same order agree on the root, on every handle and
\* on every value returned.
Determinism ==
    (Seeded /\ Get(plugin.seed).tag = "Number")
        => /\ root[1] = root[2]
           /\ first[1] = first[2]
           /\ locals[1] = locals[2]
           /\ out[1] = out[2]
           /\ crashed[1] = crashed[2]

DeterminismWitness ==
    /\ Seeded
    /\ Get(plugin.seed).tag = "Number"
    /\ Draws(1) = MaxDraws
    /\ \A c \in Systems : first[1][c] # None /\ out[1][c].kind \in {"int", "float"}

\* C4: a call on the handle of one system advances the generator of that
\* handle and leaves every other handle of the run, and what its system last
\* saw, as they were.
Isolation ==
    [][\A r \in Runs : \A c \in Systems :
           drawn'[r][c] # drawn[r][c]
               => /\ locals'[r][c] = Some(XoStep(Get(locals[r][c])))
                  /\ \A s \in Systems \ {c} :
                         locals'[r][s] = locals[r][s] /\ out'[r][s] = out[r][s]]_vars

IsolationWitness ==
    /\ locals[1][1] # None
    /\ locals[1][2] # None
    /\ drawn[1][1] = MaxDraws
    /\ locals[1][1] # first[1][1]
    /\ locals[1][2] = first[1][2]

\* C5: for a fixed seed, a system's handle starts in the same state, and
\* after as many calls has given the same values, in whichever order the
\* systems of a run are initialised and whichever of them there are.
OrderIndependence ==
    Seeded =>
        \A c \in Systems :
            (first[1][c] # None /\ first[2][c] # None)
                => /\ first[1][c] = first[2][c]
                   /\ drawn[1][c] = drawn[2][c]
                          => locals[1][c] = locals[2][c] /\ out[1][c] = out[2][c]

OrderIndependenceWitness ==
    /\ Seeded
    /\ order[1] = <<1, 2>>
    /\ order[2] = <<2, 1>>
    /\ drawn[1][1] > 0
    /\ drawn[2][1] = drawn[1][1]
    /\ drawn[1][2] = 0

\* C6: no call of the facade fails, whatever the handle and the arguments,
\* max < min and max = min included.
FacadeTotal ==
    \A r \in Runs : ~crashed[r] /\ \A c \in Systems : out[r][c].kind # "panic"

\* the value o is within [min, max) of the range a, as integers and as floats
IntWithin(o, a) == WLeq(a.min, o.m) /\ WLess(o.m, a.max)
FloatWithin(o, a) == FLeq(a.min, OutFloat(o)) /\ FLess(OutFloat(o), a.max)

\* what a range call returned lies within its range, where min < max
Within(o) ==
    CASE o.op[1] = "next_u32_range" ->
            WLess(U32Ranges[o.op[2]].min, U32Ranges[o.op[2]].max)
                => o.kind = "int" /\ IntWithin(o, U32Ranges[o.op[2]])
      [] o.op[1] = "next_u64_range" ->
            WLess(U64Ranges[o.op[2]].min, U64Ranges[o.op[2]].max)
                => o.kind = "int" /\ IntWithin(o, U64Ranges[o.op[2]])
      [] o.op[1] = "next_f32_range" ->
            FLess(F32Ranges[o.op[2]].min, F32Ranges[o.op[2]].max)
                => FloatWithin(o, F32Ranges[o.op[2]])
      [] o.op[1] = "next_f64_range" ->
            FLess(F64Ranges[o.op[2]].min, F64Ranges[o.op[2]].max)
                => FloatWithin(o, F64Ranges[o.op[2]])
      [] OTHER -> TRUE

\* C7: for min < max the range calls, of integers and of floats, return r
\* with min <= r < max.
RangeMapping == \A r \in Runs : \A c \in Systems : Within(out[r][c])

\* C8: a seed that is given, a number or a text, the empty text included,
\* decides the root: two runs built with it have the same root, and only a
\* run built without a seed takes its root from the entropy source.
SeedResolution ==
    \A r \in Runs :
        root[r] # None
            => IF plugin.seed = None
               THEN Get(root[r]) \in {from_entropy(e) : e \in EntropySeeds}
               ELSE /\ root[Other(r)] # None => root[r] = root[Other(r)]
                    /\ Get(root[r]) \notin {from_entropy(e) : e \in EntropySeeds}

SeedResolutionWitness ==
    /\ plugin.added
    /\ plugin.seed = Some(String(<<>>))
    /\ root[1] # None
    /\ root[2] # None

\* C9: once built, the RootRng is never built again, no call on a handle
\* changes it, and it is never replaced by a generator seeded afresh.
RootWrittenOnce ==
    [][\A r \in Runs :
           root[r] # None
               => /\ root'[r] # None
                  /\ phase'[r] = "running"
                  /\ drawn'[r] # drawn[r] => root'[r] = root[r]
                  /\ root'[r] # root[r] => Get(root'[r]) \notin build(plugin.seed)]_vars

RootWrittenOnceWitness ==
    /\ root[1] # None
    /\ Draws(1) = MaxDraws
    /\ \E c \in Systems : locals[1][c] # None /\ locals[1][c] # first[1][c]

=============================================================================
